---- MODULE Spec2Model ----
(***************************************************************************)
(* Model of the stateless metrics dashboard                                *)
(* (src/graphana-dashboard/dashboard_server.py): the                       *)
(* StatelessMetricsProcessor, the /metrics and /health handlers and the    *)
(* upstream polling loop.                                                  *)
(*                                                                         *)
(* Python objects live on a heap of dictionaries, so that copy.deepcopy    *)
(* and aliasing are part of the model.  A snapshot is a top-level dict     *)
(* whose group entries (cpu, disk, network) refer to nested dicts.  Each   *)
(* method call of the processor runs under self._lock and is one action.   *)
(*                                                                         *)
(* The module also models the file relay (src/monitor/web_server.py): the  *)
(* caches behind cache_lock, the loads of refresh_loop and the handlers of *)
(* GET /latest, /events and /.                                             *)
(*                                                                         *)
(* Specifications: Spec (the dashboard, call by call), SpecPoll (the       *)
(* polling loop, step by step), SpecThreads (update and the readers,       *)
(* statement by statement), SpecCalls (the same threads under a fair       *)
(* scheduler, with calls that raise), SpecRelay (the relay, call by call)  *)
(* and SpecRelaySteps (the relay, statement by statement).                 *)
(***************************************************************************)
EXTENDS Integers, Sequences, FiniteSets, TLC

\* ---------------------------------------------------------------- bounds
\* Timestamps of submitted samples range over 1..MaxTs.
MaxTs == 3
\* Counter and gauge values range over 0..MaxCounter.
MaxCounter == 1
\* time.time() returns a reading in 0..MaxClock.
MaxClock == 3
\* The staleness threshold the processor is constructed with.
MaxAge == 1
\* An upstream array holds at most MaxBatch elements, all different.
MaxBatch == 2
\* The number of threads that call update concurrently.
MaxThreads == 2
\* The metrics file of the relay holds at most MaxLines lines.
MaxLines == 2
\* Refresh cycles of the relay are numbered 0..MaxCycles, then again from 1.
MaxCycles == 2

\* ------------------------------------------------------- Python values
\* Python's None where the other values are numbers (timestamps are >= 1).
None == -1
\* A reference to no object (latest_sample = None, a call returning None).
NullRef == <<>>
\* The empty dict {}.
EmptyDict == <<>>

\* d.get(k, default)
Get(d, k, default) == IF k \in DOMAIN d THEN d[k] ELSE default
\* d[k] = v
Put(d, k, v) == [x \in DOMAIN d \cup {k} |-> IF x = k THEN v ELSE d[x]]
\* del d[k]
Del(d, k) == [x \in DOMAIN d \ {k} |-> d[x]]

\* Float results of a true division, kept exact as reduced fractions.
RECURSIVE GCD(_, _)
GCD(a, b) == IF b = 0 THEN a ELSE GCD(b, a % b)
Abs(n) == IF n < 0 THEN -n ELSE n
\* n / d for d > 0
TrueDiv(n, d) ==
    LET g == GCD(Abs(n), d)
    IN [num |-> n \div g, den |-> d \div g]
\* 0.0
ZeroFloat == [num |-> 0, den |-> 1]

\* ------------------------------------------------------------ snapshots
Groups == {"cpu", "disk", "network"}

\* A snapshot with every group and every counter.
FullBody(a) ==
    [cpu |-> [usage_percent |-> a],
     disk |-> [read_sectors |-> a, write_sectors |-> MaxCounter - a,
               used_percent |-> a],
     network |-> [rx_bytes |-> a, tx_bytes |-> MaxCounter - a]]
\* A snapshot whose groups lack a counter each, and with no cpu group.
PartialBody(a) ==
    [disk |-> [read_sectors |-> a], network |-> [tx_bytes |-> a]]
\* A snapshot with an empty disk group and no network group.
BareBody == [cpu |-> [usage_percent |-> 0], disk |-> EmptyDict]
\* A snapshot with gauges only.
GaugeBody == [cpu |-> [usage_percent |-> 1]]

Bodies ==
    {FullBody(a) : a \in 0..MaxCounter} \cup
    {PartialBody(a) : a \in 0..MaxCounter} \cup {BareBody, GaugeBody}

\* The snapshot with body b and timestamp t; t = None leaves the ts key out.
Sample(t, b) == IF t = None THEN b ELSE Put(b, "ts", t)

Samples == {Sample(t, b) : t \in (1..MaxTs) \cup {None}, b \in Bodies}

\* ----------------------------------------------------------------- heap
\* An object is addressed by the frame that allocated it and its place in
\* the snapshot: the caller's sample, the processor's stored copy, the
\* output of get_latest_with_derived.
Regions == {"caller", "stored", "output"}
Parts == {"top"} \cup Groups
Addr == Regions \X Parts

TopAddr(r) == <<r, "top">>

\* The heap after building the nested value v as fresh objects of region r.
Alloc(h, r, v) ==
    [a \in Addr |->
        IF a[1] # r THEN h[a]
        ELSE IF a[2] = "top"
             THEN [k \in DOMAIN v |-> IF k \in Groups THEN <<r, k>> ELSE v[k]]
             ELSE IF a[2] \in DOMAIN v THEN v[a[2]] ELSE EmptyDict]

\* The nested value of the snapshot object at address a.
Value(h, a) ==
    [k \in DOMAIN h[a] |-> IF k \in Groups THEN h[h[a][k]] ELSE h[a][k]]

\* The objects reachable from the references in roots.
Reach(h, roots) ==
    UNION {{a} \cup {h[a][k] : k \in DOMAIN h[a] \cap Groups} :
           a \in roots \ {NullRef}}

\* Garbage collection: objects no reference reaches are gone.
Keep(h, live) == [a \in Addr |-> IF a \in live THEN h[a] ELSE EmptyDict]
Collect(h, roots) == Keep(h, Reach(h, roots))

\* A copy that shares the nested dicts of its source (copy.copy).
ShallowCopy(h, src, r) ==
    [heap |-> [h EXCEPT ![TopAddr(r)] = h[src]], ref |-> TopAddr(r)]

\* No copy at all: the source object itself.
NoCopy(h, src, r) == [heap |-> h, ref |-> src]

\* copy.deepcopy(src): fresh objects in region r; the new heap and reference.
DeepCopy(h, src, r) ==
    [heap |-> Alloc(h, r, Value(h, src)), ref |-> TopAddr(r)]

\* obj.get(g, {})
GroupOf(h, obj, g) ==
    IF g \in DOMAIN h[obj] THEN h[h[obj][g]] ELSE EmptyDict

\* obj[g] = {} without the test: an existing group is replaced by {}.
EnsureGroupAlways(h, obj, g) ==
    [h EXCEPT ![obj] = Put(h[obj], g, <<obj[1], g>>),
              ![<<obj[1], g>>] = EmptyDict]

\* if g not in obj: obj[g] = {}
EnsureGroup(h, obj, g) ==
    IF g \in DOMAIN h[obj] THEN h
    ELSE [h EXCEPT ![obj] = Put(h[obj], g, <<obj[1], g>>),
                   ![<<obj[1], g>>] = EmptyDict]

\* obj[g][f] = v
SetField(h, obj, g, f, v) == [h EXCEPT ![h[obj][g]] = Put(@, f, v)]

\* ---------------------------------------------------------------- state
VARIABLES
    heap,                 \* the objects
    latest_sample,        \* self.latest_sample: a reference or NullRef
    last_seen_ts,         \* self.last_seen_ts
    last_counter_values,  \* self.last_counter_values
    last_counter_ts,      \* self.last_counter_ts
    max_age_seconds,      \* self.max_age_seconds
    ret,                  \* the last call: its name, result and live objects
    accepted,             \* history: the last two accepted samples' values
    stored_view,          \* observation: the value of latest_sample's object
    last_view,            \* history: what get_latest_with_derived() returned
                          \* last, since the last accepted update
    poll_pc,              \* poll_upstream_metrics: where the loop stands
    metrics_data,         \* poll_upstream_metrics: what the fetch returned
    slept,                \* poll_upstream_metrics: seconds slept since the
                          \* last fetch
    lock,                 \* self._lock: the thread holding it, or None
    tpc,                  \* each thread's position in the method it runs
    tlocal,               \* each thread's local variables and result
    metrics_cache,        \* relay: the global metrics_cache
    latest_metric_cache,  \* relay: the global latest_metric_cache
    events_cache,         \* relay: the global events_cache
    last_refresh,         \* relay: the global last_refresh
    cache_lock,           \* relay: the thread holding cache_lock, or None
    rpc,                  \* relay: where main / refresh_loop stands
    rlocal,               \* relay: the local variables of the load in progress
    rcycle,               \* relay: the number of the refresh cycle
    hpc,                  \* relay: where the request handler stands
    hlocal,               \* relay: the handler's local variables
    hret                  \* relay: the response written to the last request

procvars ==
    <<latest_sample, last_seen_ts, last_counter_values, last_counter_ts>>
dashvars ==
    <<heap, latest_sample, last_seen_ts, last_counter_values, last_counter_ts,
      max_age_seconds, ret, accepted, stored_view, last_view>>
loopvars == <<poll_pc, metrics_data, slept>>
threadvars == <<lock, tpc, tlocal>>
\* What the sequential calls of the dashboard leave alone.
relayvars ==
    <<metrics_cache, latest_metric_cache, events_cache, last_refresh,
      cache_lock, rpc, rlocal, rcycle, hpc, hlocal, hret>>
restvars == <<loopvars, threadvars, relayvars>>
vars == <<dashvars, loopvars, threadvars, relayvars>>

\* No call of get_latest_with_derived() since the last accepted update.
NoCall == [called |-> FALSE]
\* get_latest_with_derived() returned the value in view (<<>> for None).
Returned(view) == [called |-> TRUE, view |-> view]

\* The threads: the updaters 1..MaxThreads and one reader.
Updaters == 1..MaxThreads
Reader == 0
Threads == Updaters \cup {Reader}
\* A thread that has not called anything yet.
NoLocals == [sample |-> <<>>, ts |-> None, result |-> <<>>]

\* A file that does not exist, and one that holds content.
Missing == [exists |-> FALSE]
File(content) == [exists |-> TRUE, content |-> content]
\* No local variables, no response yet.
NoValue == [kind |-> "none"]

\* StatelessMetricsProcessor.__init__, and the globals of the relay as the
\* module sets them.
Init ==
    /\ heap = [a \in Addr |-> EmptyDict]
    /\ latest_sample = NullRef
    /\ last_seen_ts = None
    /\ last_counter_values = EmptyDict
    /\ last_counter_ts = None
    /\ max_age_seconds = MaxAge
    /\ ret = [op |-> "init"]
    /\ accepted = <<>>
    /\ stored_view = <<>>
    /\ last_view = NoCall
    /\ poll_pc = "fetch"
    /\ metrics_data = [type |-> "none"]
    /\ slept = 0
    /\ lock = None
    /\ tpc = [t \in Threads |-> "idle"]
    /\ tlocal = [t \in Threads |-> NoLocals]
    /\ metrics_cache = <<>>
    /\ latest_metric_cache = [type |-> "dict", id |-> 0]
    /\ events_cache = ""
    /\ last_refresh = 0
    /\ cache_lock = None
    /\ rpc = "M33"
    /\ rlocal = NoValue
    /\ rcycle = 0
    /\ hpc = "idle"
    /\ hlocal = NoValue
    /\ hret = NoValue

\* ------------------------------------------- StatelessMetricsProcessor
\* The processor object's fields, as the methods read them through self.
Self ==
    [latest_sample |-> latest_sample,
     last_seen_ts |-> last_seen_ts,
     last_counter_values |-> last_counter_values,
     last_counter_ts |-> last_counter_ts]

\* sample.get('ts') with a wrong default: a sample without ts counts as ts 0.
SampleTsDefaultZero(d) == Get(d, "ts", 0)

\* sample.get('ts')
SampleTs(d) == Get(d, "ts", None)

\* The timestamp test that lets an equal timestamp through.
NotAdvancingStrict(sample_ts, seen) == seen # None /\ sample_ts < seen

\* The timestamp test left out: every sample with a timestamp is accepted.
NotAdvancingOff(sample_ts, seen) == FALSE

\* The timestamp test of update.
NotAdvancing(sample_ts, seen) == seen # None /\ sample_ts <= seen

\* The captured counters with rx_bytes read where tx_bytes belongs.
CounterValuesSwapped(h, obj) ==
    ("disk.read_sectors" :> Get(GroupOf(h, obj, "disk"), "read_sectors", 0)) @@
    ("disk.write_sectors" :> Get(GroupOf(h, obj, "disk"), "write_sectors", 0)) @@
    ("network.rx_bytes" :> Get(GroupOf(h, obj, "network"), "rx_bytes", 0)) @@
    ("network.tx_bytes" :> Get(GroupOf(h, obj, "network"), "rx_bytes", 0))

\* The counters update captures from the sample it is about to replace.
CounterValues(h, obj) ==
    ("disk.read_sectors" :> Get(GroupOf(h, obj, "disk"), "read_sectors", 0)) @@
    ("disk.write_sectors" :> Get(GroupOf(h, obj, "disk"), "write_sectors", 0)) @@
    ("network.rx_bytes" :> Get(GroupOf(h, obj, "network"), "rx_bytes", 0)) @@
    ("network.tx_bytes" :> Get(GroupOf(h, obj, "network"), "tx_bytes", 0))

\* An update that forgets the stored snapshot when it detects a timestamp
\* that does not advance.
UpdateClearsStale(h, self, sample) ==
    LET sample_ts == SampleTs(h[sample])
    IN  IF sample_ts = None
        THEN [ok |-> FALSE, heap |-> h, self |-> self]
        ELSE IF NotAdvancing(sample_ts, self.last_seen_ts)
        THEN [ok |-> FALSE, heap |-> h,
              self |-> [self EXCEPT !.latest_sample = NullRef,
                                    !.last_seen_ts = None]]
        ELSE
            LET captured ==
                    IF self.latest_sample # NullRef
                    THEN [self EXCEPT
                            !.last_counter_values =
                                CounterValues(h, self.latest_sample),
                            !.last_counter_ts = self.last_seen_ts]
                    ELSE self
                c == DeepCopy(h, sample, "stored")
            IN  [ok |-> TRUE,
                 heap |-> c.heap,
                 self |-> [captured EXCEPT !.latest_sample = c.ref,
                                           !.last_seen_ts = sample_ts]]

\* update(sample) on heap h: whether the sample is accepted, the heap and the
\* processor's fields afterwards.
update(h, self, sample) ==
    LET sample_ts == SampleTs(h[sample])
    IN  IF sample_ts = None
        THEN [ok |-> FALSE, heap |-> h, self |-> self]
        ELSE IF NotAdvancing(sample_ts, self.last_seen_ts)
        THEN [ok |-> FALSE, heap |-> h, self |-> self]
        ELSE
            LET captured ==
                    IF self.latest_sample # NullRef
                    THEN [self EXCEPT
                            !.last_counter_values =
                                CounterValues(h, self.latest_sample),
                            !.last_counter_ts = self.last_seen_ts]
                    ELSE self
                c == DeepCopy(h, sample, "stored")
            IN  [ok |-> TRUE,
                 heap |-> c.heap,
                 self |-> [captured EXCEPT !.latest_sample = c.ref,
                                           !.last_seen_ts = sample_ts]]

\* A rate that is clamped at zero when the counter went down.
RateClamped(current, prev, time_delta) ==
    IF current < prev THEN ZeroFloat ELSE TrueDiv(current - prev, time_delta)

\* A rate with the operands of the difference exchanged.
RateSwapped(current, prev, time_delta) == TrueDiv(prev - current, time_delta)

\* One derived rate.
Rate(current, prev, time_delta) == TrueDiv(current - prev, time_delta)

\* The branch of get_latest_with_derived that computes rates.
ComputedRates(h, output, self, time_delta) ==
    LET h1 == EnsureGroup(h, output, "disk")
        current_read == Get(GroupOf(h1, output, "disk"), "read_sectors", 0)
        current_write == Get(GroupOf(h1, output, "disk"), "write_sectors", 0)
        prev_read == Get(self.last_counter_values, "disk.read_sectors", 0)
        prev_write == Get(self.last_counter_values, "disk.write_sectors", 0)
        h2 == SetField(h1, output, "disk", "read_sectors_rate",
                       Rate(current_read, prev_read, time_delta))
        h3 == SetField(h2, output, "disk", "write_sectors_rate",
                       Rate(current_write, prev_write, time_delta))
        h4 == EnsureGroup(h3, output, "network")
        current_rx == Get(GroupOf(h4, output, "network"), "rx_bytes", 0)
        current_tx == Get(GroupOf(h4, output, "network"), "tx_bytes", 0)
        prev_rx == Get(self.last_counter_values, "network.rx_bytes", 0)
        prev_tx == Get(self.last_counter_values, "network.tx_bytes", 0)
        h5 == SetField(h4, output, "network", "rx_bytes_rate",
                       Rate(current_rx, prev_rx, time_delta))
    IN  SetField(h5, output, "network", "tx_bytes_rate",
                 Rate(current_tx, prev_tx, time_delta))

\* The first sample's rates computed against counters of 0 over one second.
ZeroRatesFromZero(h, output) ==
    ComputedRates(h, output, [last_counter_values |-> EmptyDict], 1)

\* The branches of get_latest_with_derived that set every rate to 0.0.
ZeroRates(h, output) ==
    LET h1 == EnsureGroup(h, output, "disk")
        h2 == SetField(h1, output, "disk", "read_sectors_rate", ZeroFloat)
        h3 == SetField(h2, output, "disk", "write_sectors_rate", ZeroFloat)
        h4 == EnsureGroup(h3, output, "network")
        h5 == SetField(h4, output, "network", "rx_bytes_rate", ZeroFloat)
    IN  SetField(h5, output, "network", "tx_bytes_rate", ZeroFloat)

\* get_latest_with_derived() on heap h: the heap afterwards and the reference
\* returned (NullRef for None).
get_latest_with_derived(h, self) ==
    IF self.latest_sample = NullRef
    THEN [heap |-> h, ref |-> NullRef]
    ELSE
        LET c == DeepCopy(h, self.latest_sample, "output")
            output == c.ref
        IN  IF self.last_counter_ts # None /\ self.last_seen_ts # None
            THEN LET time_delta == self.last_seen_ts - self.last_counter_ts
                 IN  IF time_delta > 0
                     THEN [heap |-> ComputedRates(c.heap, output, self,
                                                  time_delta),
                           ref |-> output]
                     ELSE [heap |-> ZeroRates(c.heap, output), ref |-> output]
            ELSE [heap |-> ZeroRates(c.heap, output), ref |-> output]

\* The age taken as last_seen_ts - current_time.
HealthAgeSwapped(seen, current_time, max_age) ==
    IF seen = None
    THEN [status |-> "stale", last_seen_ts |-> None]
    ELSE IF seen - current_time > max_age
         THEN [status |-> "stale", last_seen_ts |-> seen]
         ELSE [status |-> "ok", last_seen_ts |-> seen]

\* The staleness test with >= for >.
HealthAtThreshold(seen, current_time, max_age) ==
    IF seen = None
    THEN [status |-> "stale", last_seen_ts |-> None]
    ELSE IF current_time - seen >= max_age
         THEN [status |-> "stale", last_seen_ts |-> seen]
         ELSE [status |-> "ok", last_seen_ts |-> seen]

\* get_health_status() when time.time() returns current_time.
get_health_status(seen, current_time, max_age) ==
    IF seen = None
    THEN [status |-> "stale", last_seen_ts |-> None]
    ELSE LET age_seconds == current_time - seen
         IN  IF age_seconds > max_age
             THEN [status |-> "stale", last_seen_ts |-> seen]
             ELSE [status |-> "ok", last_seen_ts |-> seen]

\* What get_latest_with_derived() returns on heap h: <<>> for None, <<v>>
\* for the snapshot value v.
ViewOf(h, self) ==
    LET r == get_latest_with_derived(h, self)
    IN  IF r.ref = NullRef THEN <<>> ELSE <<Value(r.heap, r.ref)>>

\* The value of the stored snapshot on heap h: <<>> for None.
StoredOf(h, self) ==
    IF self.latest_sample = NullRef THEN <<>>
    ELSE <<Value(h, self.latest_sample)>>

DerivedView == ViewOf(heap, Self)
StoredView == StoredOf(heap, Self)

\* What get_latest_with_derived() returns for a processor whose stored
\* snapshot has the value in sv (<<>> for None) and whose other fields are
\* those of self, whatever else the heap holds.
PureView(sv, self) ==
    IF sv = <<>> THEN ViewOf([a \in Addr |-> EmptyDict],
                             [self EXCEPT !.latest_sample = NullRef])
    ELSE ViewOf(Alloc([a \in Addr |-> EmptyDict], "stored", sv[1]),
                [self EXCEPT !.latest_sample = TopAddr("stored")])

\* -------------------------------------------------------------- actions
\* A call ends with heap h and the processor's fields self; the observation
\* follows the new state.
Ends(h, self) ==
    /\ heap' = h
    /\ stored_view' = StoredOf(h, self)

\* A call that assigns no field of the processor ends with heap h.
EndsReadOnly(h) ==
    /\ Ends(h, Self)
    /\ UNCHANGED <<procvars, max_age_seconds, accepted>>

\* The history keeps the last two accepted samples.
Remember(hist, s) ==
    IF Len(hist) < 2 THEN Append(hist, s) ELSE <<hist[2], s>>

\* The state after a call of processor.update on the caller's object holding
\* the value s, with result r; the caller keeps its object when accepted.
AfterUpdate(s, r, kept) ==
    /\ \E h \in {Collect(r.heap, {r.self.latest_sample, kept})} :
            Ends(h, r.self)
    /\ latest_sample' = r.self.latest_sample
    /\ last_seen_ts' = r.self.last_seen_ts
    /\ last_counter_values' = r.self.last_counter_values
    /\ last_counter_ts' = r.self.last_counter_ts
    /\ accepted' = IF r.ok THEN Remember(accepted, s) ELSE accepted
    /\ last_view' = IF r.ok THEN NoCall ELSE last_view

\* A caller builds the sample s and calls processor.update(s).
Update(s) ==
    \E r \in {update(Alloc(heap, "caller", s), Self, TopAddr("caller"))} :
        \E kept \in {IF r.ok THEN TopAddr("caller") ELSE NullRef} :
            /\ AfterUpdate(s, r, kept)
            /\ ret' = [op |-> "update", ts |-> Get(s, "ts", None),
                       ok |-> r.ok, sample |-> kept]
            /\ UNCHANGED <<max_age_seconds, restvars>>

\* The value of a result of get_latest_with_derived(), as json.dumps(sample)
\* writes it: <<>> for None, <<v>> for the value v.
Body(h, sample) == IF sample = NullRef THEN <<>> ELSE <<Value(h, sample)>>

\* A reader calls processor.get_latest_with_derived() and keeps the result.
GetLatestWithDerived ==
    \E r \in {get_latest_with_derived(heap, Self)} :
        /\ \E h \in {Collect(r.heap, {latest_sample, r.ref})} :
                EndsReadOnly(h)
        /\ ret' = [op |-> "get_latest_with_derived", out |-> r.ref,
                   again |-> last_view.called]
        /\ last_view' = Returned(Body(r.heap, r.ref))
        /\ UNCHANGED restvars

\* A reader calls processor.get_health_status(); time.time() returns
\* current_time.
GetHealthStatus(current_time) ==
    /\ \E h \in {Collect(heap, {latest_sample})} : EndsReadOnly(h)
    /\ ret' = [op |-> "get_health_status", time |-> current_time,
               health |-> get_health_status(last_seen_ts, current_time,
                                            max_age_seconds)]
    /\ UNCHANGED <<last_view, restvars>>

\* ------------------------------------------------- callers' mutations
\* What a caller may do to an object it holds: obj[g][f] = v, del obj[k],
\* obj["ts"] = v.
SetIn(g, f, v) == [kind |-> "set", g |-> g, f |-> f, v |-> v]
DelKey(k) == [kind |-> "del", k |-> k]
SetTs(v) == [kind |-> "ts", v |-> v]

Mutations ==
    {SetIn("disk", "read_sectors", MaxCounter + 1),
     SetIn("network", "tx_bytes", MaxCounter + 1),
     SetIn("cpu", "usage_percent", MaxCounter + 1),
     DelKey("disk"), DelKey("network"), SetTs(0)}

\* Whether the mutation applies to the object (its group or key exists).
Applies(h, obj, m) ==
    CASE m.kind = "set" -> m.g \in DOMAIN h[obj]
      [] m.kind = "del" -> m.k \in DOMAIN h[obj]
      [] OTHER -> TRUE

Mutate(h, obj, m) ==
    CASE m.kind = "set" -> SetField(h, obj, m.g, m.f, m.v)
      [] m.kind = "del" -> [h EXCEPT ![obj] = Del(@, m.k)]
      [] OTHER -> [h EXCEPT ![obj] = Put(@, "ts", m.v)]

\* The caller of an accepted update changes its sample object afterwards.
CallerMutate(m) ==
    /\ ret.op = "update" /\ ret.ok
    /\ Applies(heap, ret.sample, m)
    /\ \E h \in {Collect(Mutate(heap, ret.sample, m),
                          {latest_sample, ret.sample})} : EndsReadOnly(h)
    /\ ret' = [op |-> "caller_mutate", sample |-> ret.sample]
    /\ UNCHANGED <<last_view, restvars>>

\* A reader changes the object get_latest_with_derived returned to it.
ReaderMutate(m) ==
    /\ ret.op = "get_latest_with_derived" /\ ret.out # NullRef
    /\ Applies(heap, ret.out, m)
    /\ \E h \in {Collect(Mutate(heap, ret.out, m),
                          {latest_sample, ret.out})} : EndsReadOnly(h)
    /\ ret' = [op |-> "reader_mutate", out |-> ret.out]
    /\ UNCHANGED <<last_view, restvars>>

\* ------------------------------------------------------ DashboardHandler
\* The status of a handler that leaves the test for None out.
MetricsStatusNoCheck(sample, io_ok) == IF io_ok THEN 200 ELSE 500

\* The status _serve_metrics answers with: 503 without a sample, 500 when
\* serialising or writing the response raises.
MetricsStatus(sample, io_ok) ==
    IF sample = NullRef THEN 503 ELSE IF io_ok THEN 200 ELSE 500

\* GET /metrics; io_ok tells whether json.dumps and the socket writes succeed.
ServeMetrics(io_ok) ==
    \E r \in {get_latest_with_derived(heap, Self)} :
        \E status \in {MetricsStatus(r.ref, io_ok)} :
            /\ \E h \in {Collect(r.heap, {latest_sample})} : EndsReadOnly(h)
            /\ ret' = [op |-> "GET /metrics", status |-> status,
                       io_ok |-> io_ok,
                       body |-> IF status = 200
                                THEN Body(r.heap, r.ref) ELSE <<>>]
            /\ last_view' = Returned(Body(r.heap, r.ref))
            /\ UNCHANGED restvars

\* GET /health
ServeHealth(current_time, io_ok) ==
    /\ \E h \in {Collect(heap, {latest_sample})} : EndsReadOnly(h)
    /\ ret' = [op |-> "GET /health", status |-> IF io_ok THEN 200 ELSE 500,
               io_ok |-> io_ok,
               body |-> IF io_ok
                        THEN <<get_health_status(last_seen_ts, current_time,
                                                 max_age_seconds)>>
                        ELSE <<>>]
    /\ UNCHANGED <<last_view, restvars>>

\* ------------------------------------------------- poll_upstream_metrics
\* What _fetch_metrics_sync returns: None on any failure, else the parsed
\* JSON: an object, an array, or anything else.
FetchFailed == [type |-> "none"]
JsonDict(d) == [type |-> "dict", value |-> d]
JsonList(items) == [type |-> "list", items |-> items]
JsonOther == [type |-> "other"]

\* The elements of upstream arrays: two with the same timestamp, one newer,
\* one with timestamp 0, one without timestamp, one that is no object.
BatchElems ==
    {JsonDict(Sample(1, PartialBody(0))), JsonDict(Sample(1, GaugeBody)),
     JsonDict(Sample(MaxTs, PartialBody(0))),
     JsonDict(Sample(0, GaugeBody)),
     JsonDict(Sample(None, GaugeBody)), JsonOther}

Batches ==
    {items \in UNION {[1..n -> BatchElems] : n \in 0..MaxBatch} :
        \A i, j \in DOMAIN items : i # j => items[i] # items[j]}

Fetched ==
    {FetchFailed, JsonOther} \cup {e \in BatchElems : e.type = "dict"} \cup
    {JsonList(items) : items \in Batches}

\* The fetched values with at most one array element: for a whole cycle seen
\* from the other threads only the element handed on matters.
ShortFetched == {m \in Fetched : m.type = "list" => Len(m.items) <= 1}

\* A key that puts an element without timestamp below every timestamp.
SortKeyMissingLowest(x) == IF x.type = "dict" THEN Get(x.value, "ts", -1) ELSE -1

\* key=lambda x: x.get('ts', 0) if isinstance(x, dict) else 0
SortKey(x) == IF x.type = "dict" THEN Get(x.value, "ts", 0) ELSE 0

\* The last element of the array, whatever its timestamp.
NewestLast(items) == items[Len(items)]

\* max(metrics_data, key=...): the first element with the largest key.
Newest(items) ==
    items[CHOOSE i \in 1..Len(items) :
            \A j \in 1..Len(items) :
                /\ SortKey(items[j]) <= SortKey(items[i])
                /\ j < i => SortKey(items[j]) < SortKey(items[i])]

\* A cycle that hands an empty sample to processor.update when it has no
\* usable data.
ForwardedDefaultEmpty(data) ==
    CASE data.type = "dict" -> <<data.value>>
      [] data.type = "list" /\ Len(data.items) > 0 ->
            IF Newest(data.items).type = "dict"
            THEN <<Newest(data.items).value>>
            ELSE <<>>
      [] OTHER -> <<EmptyDict>>

\* The element a polling cycle hands to processor.update: <<>> for none.
Forwarded(data) ==
    CASE data.type = "dict" -> <<data.value>>
      [] data.type = "list" /\ Len(data.items) > 0 ->
            IF Newest(data.items).type = "dict"
            THEN <<Newest(data.items).value>>
            ELSE <<>>
      [] OTHER -> <<>>

\* What one cycle does with the value data the fetch returned (lines
\* 522-548).
ProcessMetrics(data) ==
    \E fwd \in {Forwarded(data)} :
        IF fwd = <<>>
        THEN /\ \E h \in {Collect(heap, {latest_sample})} : EndsReadOnly(h)
             /\ ret' = [op |-> "poll", fetched |-> data.type,
                        forwarded |-> fwd, ok |-> FALSE]
             /\ UNCHANGED last_view
        ELSE \E r \in {update(Alloc(heap, "caller", fwd[1]), Self,
                              TopAddr("caller"))} :
                /\ AfterUpdate(fwd[1], r, NullRef)
                /\ ret' = [op |-> "poll", fetched |-> data.type,
                           forwarded |-> fwd, ok |-> r.ok]
                /\ UNCHANGED max_age_seconds

\* One whole cycle of the polling loop, from the fetch to the sleep, as the
\* other threads see it.
PollCycle(data) == ProcessMetrics(data) /\ UNCHANGED restvars

\* ------------------------------------- the polling loop, step by step
\* poll_interval as main passes it (the default of --poll-interval).
PollInterval == 15

\* What can happen to one fetch: the connection fails or times out, the
\* upstream answers another status than 200, the body is no JSON, or the
\* body parses to data.
UrlError == [kind |-> "URLError"]
BadStatus == [kind |-> "status"]
Malformed == [kind |-> "malformed"]
Parsed(data) == [kind |-> "ok", data |-> data]
FetchOutcomes ==
    {UrlError, BadStatus, Malformed} \cup
    {Parsed(data) : data \in Fetched \ {FetchFailed}}

\* _fetch_metrics_sync: the parsed body, None on every failure.
fetch_metrics_sync(outcome) ==
    IF outcome.kind = "ok" THEN outcome.data ELSE FetchFailed

\* Processing raises: the selected element of an array is no object, and
\* newest_sample.get fails.
ProcessingRaises(data) ==
    /\ data.type = "list"
    /\ Len(data.items) > 0
    /\ Newest(data.items).type # "dict"

\* A loop that starts the next cycle at once when processing raised.
ProcessingErrorRetries == "fetch"

\* Where the loop goes when processing raised: the handler of lines 545-546
\* logs, and the loop goes on to the sleep of line 550.
ProcessingErrorGoes == "sleep"

\* metrics_data = _fetch_metrics_sync(endpoint, timeout)
LoopFetch(outcome) ==
    /\ poll_pc = "fetch"
    /\ metrics_data' = fetch_metrics_sync(outcome)
    /\ poll_pc' = "process"
    /\ slept' = 0
    /\ UNCHANGED <<dashvars, threadvars, relayvars>>

\* Lines 522-548: the fetched value is processed.
LoopProcess ==
    /\ poll_pc = "process"
    /\ ProcessMetrics(metrics_data)
    /\ poll_pc' = IF ProcessingRaises(metrics_data)
                  THEN ProcessingErrorGoes ELSE "sleep"
    /\ UNCHANGED <<metrics_data, slept, threadvars, relayvars>>

\* time.sleep(poll_interval)
LoopSleep ==
    /\ poll_pc = "sleep"
    /\ slept' = PollInterval
    /\ poll_pc' = "fetch"
    /\ UNCHANGED <<dashvars, metrics_data, threadvars, relayvars>>

NextPoll ==
    \/ \E outcome \in FetchOutcomes : LoopFetch(outcome)
    \/ LoopProcess
    \/ LoopSleep

\* The polling thread alone; the thread is always scheduled again, the fetch
\* returns within its timeout and the sleep ends.
SpecPoll == Init /\ [][NextPoll]_vars /\ WF_vars(NextPoll)

Next ==
    \/ \E s \in Samples : Update(s)
    \/ GetLatestWithDerived
    \/ \E t \in 0..MaxClock : GetHealthStatus(t)
    \/ \E m \in Mutations : CallerMutate(m)
    \/ \E m \in Mutations : ReaderMutate(m)
    \/ \E io_ok \in BOOLEAN : ServeMetrics(io_ok)
    \/ \E t \in 0..MaxClock : \E io_ok \in BOOLEAN : ServeHealth(t, io_ok)
    \/ \E m \in ShortFetched : PollCycle(m)

Spec == Init /\ [][Next]_vars

\* ------------------------- the processor's methods, statement by statement
\* A lock that never makes a thread wait.
CanAcquireAlways(l, t) == TRUE

\* with self._lock: thread t can enter when no thread holds the lock l.
CanAcquire(l, t) == l = None

\* A with block that ends right after the timestamp test.
LockDroppedAfterTest(t) == None

\* The holder of the lock once the test of line 48 let thread t's sample
\* through: the with block runs on to line 67.
LockAfterTest(t) == t

\* A timestamp that is no number, as JSON text in the ts field is.
TextTs == -2

\* sample_ts <= self.last_seen_ts raises TypeError when one of the two is
\* text and the other a number.
CompareRaises(sample_ts, seen) ==
    seen # None /\ (sample_ts = TextTs) # (seen = TextTs)

\* current_time - self.last_seen_ts raises TypeError when last_seen_ts is
\* text.
SubtractRaises(seen) == seen = TextTs

\* An exception that leaves the lock with the thread that raised it.
UnwindKeepsLock(l, t) == l

\* The holder of lock l once an exception raised by thread t has left the
\* with block: the context manager releases the lock.
Unwind(l, t) == None

\* The samples the concurrent callers submit: one per timestamp, with
\* different counters, and one without timestamp.
ThreadSamples ==
    {Sample(ts, PartialBody(ts % (MaxCounter + 1))) : ts \in 1..MaxThreads}
        \cup {Sample(None, GaugeBody)}

Goto(t, pc) == tpc' = [tpc EXCEPT ![t] = pc]
SetLocal(t, loc) == tlocal' = [tlocal EXCEPT ![t] = loc]
\* What no statement of the processor's methods touches.
ThreadFrame ==
    UNCHANGED <<loopvars, relayvars, ret, stored_view, last_view,
                max_age_seconds>>

\* Thread t calls processor.update(s).
TCall(t, s) ==
    /\ tpc[t] = "idle"
    /\ SetLocal(t, [sample |-> <<s>>, ts |-> None, result |-> <<>>])
    /\ Goto(t, "L41")
    /\ UNCHANGED <<heap, procvars, accepted, lock>>
    /\ ThreadFrame

\* sample_ts = sample.get('ts'); if sample_ts is None
T41(t) ==
    /\ tpc[t] = "L41"
    /\ \E sample_ts \in {SampleTs(tlocal[t].sample[1])} :
          /\ SetLocal(t, [tlocal[t] EXCEPT !.ts = sample_ts])
          /\ Goto(t, IF sample_ts = None THEN "L43" ELSE "L46")
    /\ UNCHANGED <<heap, procvars, accepted, lock>>
    /\ ThreadFrame

\* logger.warning("Sample missing timestamp, rejecting"); return False
T43(t) ==
    /\ tpc[t] = "L43"
    /\ SetLocal(t, [tlocal[t] EXCEPT !.result = <<FALSE>>])
    /\ Goto(t, "done")
    /\ UNCHANGED <<heap, procvars, accepted, lock>>
    /\ ThreadFrame

\* with self._lock:
T46(t) ==
    /\ tpc[t] = "L46"
    /\ CanAcquire(lock, t)
    /\ lock' = t
    /\ Goto(t, "L48")
    /\ UNCHANGED <<heap, procvars, accepted, tlocal>>
    /\ ThreadFrame

\* if self.last_seen_ts is not None and sample_ts <= self.last_seen_ts
T48(t) ==
    /\ tpc[t] = "L48"
    /\ IF CompareRaises(tlocal[t].ts, last_seen_ts)
       THEN Goto(t, "X48") /\ UNCHANGED lock
       ELSE IF NotAdvancing(tlocal[t].ts, last_seen_ts)
            THEN Goto(t, "L49") /\ UNCHANGED lock
            ELSE Goto(t, "L53") /\ lock' = LockAfterTest(t)
    /\ UNCHANGED <<heap, procvars, accepted, tlocal>>
    /\ ThreadFrame

\* logger.warning(f"Timestamp not advancing: ..."), written to stderr
T49(t) ==
    /\ tpc[t] = "L49"
    /\ Goto(t, "L50")
    /\ UNCHANGED <<heap, procvars, accepted, tlocal, lock>>
    /\ ThreadFrame

\* return False, which leaves the with block
T50(t) ==
    /\ tpc[t] = "L50"
    /\ lock' = None
    /\ SetLocal(t, [tlocal[t] EXCEPT !.result = <<FALSE>>])
    /\ Goto(t, "done")
    /\ UNCHANGED <<heap, procvars, accepted>>
    /\ ThreadFrame

\* if self.latest_sample is not None: self.last_counter_values = {...}
T53(t) ==
    /\ tpc[t] = "L53"
    /\ IF latest_sample # NullRef
       THEN /\ last_counter_values' = CounterValues(heap, latest_sample)
            /\ Goto(t, "L60")
       ELSE /\ UNCHANGED last_counter_values
            /\ Goto(t, "L63")
    /\ UNCHANGED <<heap, latest_sample, last_seen_ts, last_counter_ts,
                   accepted, tlocal, lock>>
    /\ ThreadFrame

\* self.last_counter_ts = self.last_seen_ts
T60(t) ==
    /\ tpc[t] = "L60"
    /\ last_counter_ts' = last_seen_ts
    /\ Goto(t, "L63")
    /\ UNCHANGED <<heap, latest_sample, last_seen_ts, last_counter_values,
                   accepted, tlocal, lock>>
    /\ ThreadFrame

\* self.latest_sample = copy.deepcopy(sample)
T63(t) ==
    /\ tpc[t] = "L63"
    /\ \E r \in {DeepCopy(Alloc(heap, "caller", tlocal[t].sample[1]),
                          TopAddr("caller"), "stored")} :
          /\ heap' = Collect(r.heap, {r.ref})
          /\ latest_sample' = r.ref
    /\ Goto(t, "L64")
    /\ UNCHANGED <<last_seen_ts, last_counter_values, last_counter_ts,
                   accepted, tlocal, lock>>
    /\ ThreadFrame

\* self.last_seen_ts = sample_ts
T64(t) ==
    /\ tpc[t] = "L64"
    /\ last_seen_ts' = tlocal[t].ts
    /\ Goto(t, "L67")
    /\ UNCHANGED <<heap, latest_sample, last_counter_values, last_counter_ts,
                   accepted, tlocal, lock>>
    /\ ThreadFrame

\* logger.debug(...), which the INFO level drops; return True, which leaves
\* the with block
T67(t) ==
    /\ tpc[t] = "L67"
    /\ lock' = None
    /\ SetLocal(t, [tlocal[t] EXCEPT !.result = <<TRUE>>])
    /\ accepted' = Remember(accepted, tlocal[t].sample[1])
    /\ Goto(t, "done")
    /\ UNCHANGED <<heap, procvars>>
    /\ ThreadFrame

\* The reader calls get_latest_with_derived() or get_health_status().
RCall(method) ==
    /\ tpc[Reader] = "idle"
    /\ SetLocal(Reader, NoLocals)
    /\ Goto(Reader, method)
    /\ UNCHANGED <<heap, procvars, accepted, lock>>
    /\ ThreadFrame

\* with self._lock: in get_latest_with_derived (line 74) and in
\* get_health_status (line 134)
RLock ==
    /\ tpc[Reader] \in {"G74", "H134"}
    /\ CanAcquire(lock, Reader)
    /\ lock' = Reader
    /\ Goto(Reader, IF tpc[Reader] = "G74" THEN "G75" ELSE "H135")
    /\ UNCHANGED <<heap, procvars, accepted, tlocal>>
    /\ ThreadFrame

\* Lines 75-127 and the return, which leaves the with block.
RView ==
    /\ tpc[Reader] = "G75"
    /\ \E r \in {get_latest_with_derived(heap, Self)} :
          /\ heap' = Collect(r.heap, {latest_sample})
          /\ SetLocal(Reader, [NoLocals EXCEPT
                 !.result = <<[kind |-> "view",
                               view |-> Body(r.heap, r.ref)]>>])
    /\ lock' = None
    /\ Goto(Reader, "idle")
    /\ UNCHANGED <<procvars, accepted>>
    /\ ThreadFrame

\* Lines 135-144 and the return, which leaves the with block.
RHealth(current_time) ==
    /\ tpc[Reader] = "H135"
    /\ IF SubtractRaises(last_seen_ts)
       THEN /\ Goto(Reader, "X139")
            /\ UNCHANGED <<tlocal, lock>>
       ELSE /\ SetLocal(Reader, [NoLocals EXCEPT
                   !.result = <<[kind |-> "health",
                                 health |-> get_health_status(last_seen_ts,
                                                current_time,
                                                max_age_seconds)]>>])
            /\ lock' = None
            /\ Goto(Reader, "idle")
    /\ UNCHANGED <<heap, procvars, accepted>>
    /\ ThreadFrame

NextThreads ==
    \/ \E t \in Updaters : \E s \in ThreadSamples : TCall(t, s)
    \/ \E t \in Updaters : T41(t)
    \/ \E t \in Updaters : T43(t)
    \/ \E t \in Updaters : T46(t)
    \/ \E t \in Updaters : T48(t)
    \/ \E t \in Updaters : T49(t)
    \/ \E t \in Updaters : T50(t)
    \/ \E t \in Updaters : T53(t)
    \/ \E t \in Updaters : T60(t)
    \/ \E t \in Updaters : T63(t)
    \/ \E t \in Updaters : T64(t)
    \/ \E t \in Updaters : T67(t)
    \/ \E method \in {"G74", "H134"} : RCall(method)
    \/ RLock
    \/ RView
    \/ \E current_time \in {0, MaxClock} : RHealth(current_time)

\* MaxThreads threads each call update once while a reader keeps calling
\* get_latest_with_derived() and get_health_status().
SpecThreads == Init /\ [][NextThreads]_vars

\* The samples thread t may submit when exceptions are among the paths: one
\* with the timestamp t, one without timestamp and one whose ts is text.
CallSamples(t) ==
    {Sample(t, PartialBody(t % (MaxCounter + 1))), Sample(None, GaugeBody),
     Sample(TextTs, GaugeBody)}

\* The TypeError of line 48 leaves the with block and update: the call of
\* thread t ends with the exception.
TRaise(t) ==
    /\ tpc[t] = "X48"
    /\ lock' = Unwind(lock, t)
    /\ Goto(t, "raised")
    /\ UNCHANGED <<heap, procvars, accepted, tlocal>>
    /\ ThreadFrame

\* The TypeError of line 139 leaves the with block and get_health_status;
\* the reader goes on to its next call.
RRaise ==
    /\ tpc[Reader] = "X139"
    /\ lock' = Unwind(lock, Reader)
    /\ Goto(Reader, "idle")
    /\ UNCHANGED <<heap, procvars, accepted, tlocal>>
    /\ ThreadFrame

NextCalls ==
    \/ \E t \in Updaters : \E s \in CallSamples(t) : TCall(t, s)
    \/ \E t \in Updaters : T41(t)
    \/ \E t \in Updaters : T43(t)
    \/ \E t \in Updaters : T46(t)
    \/ \E t \in Updaters : T48(t)
    \/ \E t \in Updaters : T49(t)
    \/ \E t \in Updaters : T50(t)
    \/ \E t \in Updaters : T53(t)
    \/ \E t \in Updaters : T60(t)
    \/ \E t \in Updaters : T63(t)
    \/ \E t \in Updaters : T64(t)
    \/ \E t \in Updaters : T67(t)
    \/ \E t \in Updaters : TRaise(t)
    \/ \E method \in {"G74", "H134"} : RCall(method)
    \/ RLock
    \/ RView
    \/ \E current_time \in {0, MaxClock} : RHealth(current_time)
    \/ RRaise

\* The next statement of the call thread t is in.
Proceed(t) ==
    IF t = Reader
    THEN \/ RLock \/ RView \/ RRaise
         \/ \E current_time \in {0, MaxClock} : RHealth(current_time)
    ELSE \/ T41(t) \/ T43(t) \/ T46(t) \/ T48(t) \/ T49(t) \/ T50(t)
         \/ T53(t) \/ T60(t) \/ T63(t) \/ T64(t) \/ T67(t) \/ TRaise(t)

\* The threads of SpecThreads, each updater submitting one of CallSamples,
\* under a fair scheduler: a thread that can run its next statement
\* does so, and a thread that waits for a lock that is free again and again
\* gets it.  Only the lock statement can be disabled and enabled again, so
\* strong fairness of a thread's steps is weak fairness of every statement
\* but that one.
SpecCalls ==
    /\ Init
    /\ [][NextCalls]_vars
    /\ \A t \in Threads : SF_vars(Proceed(t))

\* ------------------------------------------- the file relay (web_server.py)
\* The relay has two threads: main, which loads both files once and then
\* serves requests one at a time, and refresh_loop.  The monitor that writes
\* the two files is the environment: what a file holds is an input of the
\* step that reads it.

\* REFRESH_INTERVAL
RefreshInterval == 15

\* The threads that take cache_lock.
Refresher == 1
Handler == 2

\* A line of the metrics file is a JSON object, a JSON value that is not an
\* object (a number, say), text that is not JSON, or blank.
LineKinds == {"object", "scalar", "bad", "blank"}
\* json.loads of line i: objects of different lines are different snapshots.
JsonObject(i) == [type |-> "dict", id |-> i]
JsonScalar(i) == [type |-> "int", id |-> i]
\* The dict {}.
EmptyObject == JsonObject(0)
json_loads(kind, i) == IF kind = "object" THEN JsonObject(i) ELSE JsonScalar(i)
\* json.loads raises JSONDecodeError.
DecodeError(kind) == kind = "bad"

\* Contents the monitor leaves in the events file.
EventTexts == {"", "a"}

\* load_metrics: where the loop over the lines goes on after a line that
\* does not parse.
AfterBadLine(lines, i) == i + 1

\* load_metrics: the loop over the lines of the file, from line i on, with
\* metrics and latest so far.
RECURSIVE ParseFrom(_, _, _)
ParseFrom(lines, i, acc) ==
    IF i > Len(lines) THEN acc
    ELSE IF lines[i] = "blank" THEN ParseFrom(lines, i + 1, acc)
    ELSE IF DecodeError(lines[i])
         THEN ParseFrom(lines, AfterBadLine(lines, i), acc)
    ELSE ParseFrom(lines, i + 1,
                   [metrics |-> Append(acc.metrics, json_loads(lines[i], i)),
                    latest |-> json_loads(lines[i], i)])

\* load_metrics: metrics and latest before the file is looked at.
NothingLoaded == [metrics |-> <<>>, latest |-> EmptyObject]

\* A load that keeps what the caches held when the file does not exist.
MissingMetricsKept(old) == old
\* load_metrics: metrics and latest when the file does not exist; old holds
\* the caches' values.
MissingMetrics(old) == NothingLoaded

\* load_events: content when the file does not exist.
MissingEvents(old) == ""

\* time.time() in refresh cycle c: each cycle starts one sleep later.
Now(c) == RefreshInterval * (c + 1)

\* main has started the refresh thread and the HTTP server.
Serving == rcycle >= 1 \/ rpc = "sleep"

\* What a read can find: no file, or a file and its content.
RECURSIVE SeqsUpTo(_, _)
SeqsUpTo(S, n) ==
    IF n = 0 THEN {<<>>}
    ELSE LET shorter == SeqsUpTo(S, n - 1)
         IN  shorter \cup {Append(q, x) : q \in shorter, x \in S}
MetricsFiles == {Missing} \cup {File(l) : l \in SeqsUpTo(LineKinds, MaxLines)}
EventsFiles == {Missing} \cup {File(e) : e \in EventTexts}

RelayFrame(changed) ==
    /\ UNCHANGED <<dashvars, loopvars, threadvars>>
    /\ \/ changed = "refresher"
          /\ UNCHANGED <<hpc, hlocal, hret>>
       \/ changed = "handler"
          /\ UNCHANGED <<metrics_cache, latest_metric_cache, events_cache,
                         last_refresh, rpc,
                         rlocal, rcycle>>

\* load_metrics, lines 30-44: metrics and latest after reading metrics_file,
\* old being the caches' values
ReadMetrics(metrics_file, old) ==
    IF metrics_file.exists
    THEN ParseFrom(metrics_file.content, 1, NothingLoaded)
    ELSE MissingMetrics(old)

\* load_events, lines 59-64: content after reading events_file
ReadEvents(events_file, old) ==
    IF events_file.exists THEN events_file.content ELSE MissingEvents(old)

\* What the refresh thread remembers of a load that has replaced a cache:
\* whether the file was there, and whether the cache held something.
Swapped(cache, found, replaced) ==
    [kind |-> cache, found |-> found, replaced |-> replaced]

\* load_metrics, lines 29-44: reads the file, which the monitor has left as
\* metrics_file.  outcome "raises" is open or read failing on a file that
\* existed at line 33.
M33(metrics_file, outcome) ==
    /\ rpc = "M33"
    /\ outcome = "raises" => metrics_file.exists
    /\ IF outcome = "raises"
       THEN /\ rlocal' = [kind |-> "error"]
            /\ rpc' = "M52"
       ELSE /\ rlocal' = [kind |-> "metrics", found |-> metrics_file.exists,
                          loaded |-> ReadMetrics(metrics_file,
                              [metrics |-> metrics_cache,
                               latest |-> latest_metric_cache])]
            /\ rpc' = "M46"
    /\ UNCHANGED <<metrics_cache, latest_metric_cache, events_cache,
                   last_refresh, cache_lock, rcycle>>
    /\ RelayFrame("refresher")

\* load_metrics, line 46: with cache_lock
M46 ==
    /\ rpc = "M46"
    /\ cache_lock = None
    /\ cache_lock' = Refresher
    /\ rpc' = "M47"
    /\ UNCHANGED <<metrics_cache, latest_metric_cache, events_cache,
                   last_refresh, rlocal, rcycle>>
    /\ RelayFrame("refresher")

\* load_metrics, lines 47-49, and the release of cache_lock
M47 ==
    /\ rpc = "M47"
    /\ metrics_cache' = rlocal.loaded.metrics
    /\ latest_metric_cache' = rlocal.loaded.latest
    /\ last_refresh' = Now(rcycle)
    /\ cache_lock' = None
    /\ rlocal' = Swapped("metrics", rlocal.found, metrics_cache # <<>>)
    /\ rpc' = "E59"
    /\ UNCHANGED <<events_cache, rcycle>>
    /\ RelayFrame("refresher")

\* load_metrics, lines 50-52: the error is printed
M52 ==
    /\ rpc = "M52"
    /\ rpc' = "E59"
    /\ UNCHANGED <<metrics_cache, latest_metric_cache, events_cache,
                   last_refresh, cache_lock, rlocal, rcycle>>
    /\ RelayFrame("refresher")

\* load_events, lines 58-64: reads the file, which the monitor has left as
\* events_file
E59(events_file, outcome) ==
    /\ rpc = "E59"
    /\ outcome = "raises" => events_file.exists
    /\ IF outcome = "raises"
       THEN /\ rlocal' = [kind |-> "error"]
            /\ rpc' = "E70"
       ELSE /\ rlocal' = [kind |-> "events", found |-> events_file.exists,
                          content |-> ReadEvents(events_file, events_cache)]
            /\ rpc' = "E66"
    /\ UNCHANGED <<metrics_cache, latest_metric_cache, events_cache,
                   last_refresh, cache_lock, rcycle>>
    /\ RelayFrame("refresher")

\* load_events, line 66: with cache_lock
E66 ==
    /\ rpc = "E66"
    /\ cache_lock = None
    /\ cache_lock' = Refresher
    /\ rpc' = "E67"
    /\ UNCHANGED <<metrics_cache, latest_metric_cache, events_cache,
                   last_refresh, rlocal, rcycle>>
    /\ RelayFrame("refresher")

\* load_events, line 67, and the release of cache_lock
E67 ==
    /\ rpc = "E67"
    /\ events_cache' = rlocal.content
    /\ cache_lock' = None
    /\ rlocal' = Swapped("events", rlocal.found, events_cache # "")
    /\ rpc' = "sleep"
    /\ UNCHANGED <<metrics_cache, latest_metric_cache, last_refresh, rcycle>>
    /\ RelayFrame("refresher")

\* load_events, lines 68-70: the error is printed
E70 ==
    /\ rpc = "E70"
    /\ rpc' = "sleep"
    /\ UNCHANGED <<metrics_cache, latest_metric_cache, events_cache,
                   last_refresh, cache_lock, rlocal, rcycle>>
    /\ RelayFrame("refresher")

\* refresh_loop, line 75: time.sleep(REFRESH_INTERVAL); the first time, main
\* starting the thread.
RelaySleep ==
    /\ rpc = "sleep"
    /\ rcycle' = IF rcycle = MaxCycles THEN 1 ELSE rcycle + 1
    /\ rpc' = "M33"
    /\ rlocal' = NoValue
    /\ UNCHANGED <<metrics_cache, latest_metric_cache, events_cache,
                   last_refresh, cache_lock>>
    /\ RelayFrame("refresher")

\* The paths do_GET tells apart, and where each handler starts.
Paths == {"/latest", "/events", "/", "/other"}
Entry(path) ==
    CASE path = "/latest" -> "L96"
      [] path = "/events" -> "V120"
      [] path = "/" -> "I143"
      [] OTHER -> "N91"

\* MetricsHandler.do_GET
DoGet(path) ==
    /\ Serving
    /\ hpc = "idle"
    /\ hpc' = Entry(path)
    /\ hret' = NoValue
    /\ UNCHANGED <<hlocal, cache_lock>>
    /\ RelayFrame("handler")

\* do_GET, line 91: send_error(404)
N91 ==
    /\ hpc = "N91"
    /\ hret' = [op |-> "/other", status |-> 404]
    /\ hpc' = "idle"
    /\ hlocal' = NoValue
    /\ UNCHANGED cache_lock
    /\ RelayFrame("handler")

\* with cache_lock, at lines 96, 120 and 143
HandlerLock ==
    /\ hpc \in {"L96", "V120", "I143"}
    /\ cache_lock = None
    /\ cache_lock' = Handler
    /\ hpc' = CASE hpc = "L96" -> "L97"
                [] hpc = "V120" -> "V121"
                [] OTHER -> "I144"
    /\ UNCHANGED <<hlocal, hret>>
    /\ RelayFrame("handler")

\* dict(value) raises TypeError unless value is a dict ...
DictRaises(value) == value.type # "dict"
\* ... and otherwise builds a dict with the same items.
Dict(value) == [k \in DOMAIN value |-> value[k]]

\* serve_latest_metric, line 97, and the release of cache_lock
L97 ==
    /\ hpc = "L97"
    /\ hlocal' = [kind |-> "latest", cached |-> latest_metric_cache]
    /\ cache_lock' = None
    /\ hpc' = "L99"
    /\ UNCHANGED hret
    /\ RelayFrame("handler")

\* What writing to the client does: it succeeds, the client has gone
\* (BrokenPipeError), or it fails otherwise.
WriteOutcomes == {"ok", "broken_pipe", "error"}

\* serve_latest_metric, lines 97-115: the response to a request that found
\* cached in latest_metric_cache.  No status is None.
LatestResponse(cached, io) ==
    [op |-> "/latest",
     status |-> IF io = "broken_pipe" THEN None
                ELSE IF DictRaises(cached) \/ io = "error" THEN 500 ELSE 200,
     json |-> IF ~DictRaises(cached) /\ io = "ok" THEN Dict(cached)
              ELSE EmptyObject]

\* serve_events, lines 121-139: the response
EventsResponse(content, io) ==
    [op |-> "/events",
     status |-> IF io = "broken_pipe" THEN None
                ELSE IF io = "error" THEN 500 ELSE 200,
     text |-> IF io = "ok" THEN content ELSE ""]

\* serve_info, lines 146-162: the response; an exception is not caught here
InfoResponse(refresh_time, metrics, io) ==
    IF io = "ok"
    THEN [op |-> "/", status |-> 200, last_refresh |-> refresh_time,
          metrics_count |-> Len(metrics)]
    ELSE [op |-> "/", status |-> None]

\* serve_latest_metric, lines 99-115
L99(io) ==
    /\ hpc = "L99"
    /\ hret' = LatestResponse(hlocal.cached, io)
    /\ hpc' = "idle"
    /\ hlocal' = NoValue
    /\ UNCHANGED cache_lock
    /\ RelayFrame("handler")

\* serve_events, line 121, and the release of cache_lock
V121 ==
    /\ hpc = "V121"
    /\ hlocal' = [kind |-> "events", content |-> events_cache]
    /\ cache_lock' = None
    /\ hpc' = "V123"
    /\ UNCHANGED hret
    /\ RelayFrame("handler")

\* serve_events, lines 123-139
V123(io) ==
    /\ hpc = "V123"
    /\ hret' = EventsResponse(hlocal.content, io)
    /\ hpc' = "idle"
    /\ hlocal' = NoValue
    /\ UNCHANGED cache_lock
    /\ RelayFrame("handler")

\* serve_info, line 144, and the release of cache_lock
I144 ==
    /\ hpc = "I144"
    /\ hlocal' = [kind |-> "info", refresh_time |-> last_refresh]
    /\ cache_lock' = None
    /\ hpc' = "I146"
    /\ UNCHANGED hret
    /\ RelayFrame("handler")

\* serve_info, lines 146-162: info is built, reading metrics_cache, and
\* written
I146(io) ==
    /\ hpc = "I146"
    /\ hret' = InfoResponse(hlocal.refresh_time, metrics_cache, io)
    /\ hpc' = "idle"
    /\ hlocal' = NoValue
    /\ UNCHANGED cache_lock
    /\ RelayFrame("handler")

NextRelaySteps ==
    \/ \E f \in MetricsFiles, outcome \in {"ok", "raises"} : M33(f, outcome)
    \/ M46
    \/ M47
    \/ M52
    \/ \E f \in EventsFiles, outcome \in {"ok", "raises"} : E59(f, outcome)
    \/ E66
    \/ E67
    \/ E70
    \/ RelaySleep
    \/ \E path \in Paths : DoGet(path)
    \/ N91
    \/ HandlerLock
    \/ L97
    \/ \E io \in WriteOutcomes : L99(io)
    \/ V121
    \/ \E io \in WriteOutcomes : V123(io)
    \/ I144
    \/ \E io \in WriteOutcomes : I146(io)

SpecRelaySteps == Init /\ [][NextRelaySteps]_vars

\* ----------------------------------------- the file relay, call by call
\* Each load replaces its caches in one assignment under cache_lock and each
\* handler copies what it serves under cache_lock, so a call that no other
\* thread's step falls into is one action.

\* A failed read that stores what it had read so far.
FailedReadStoresPartial(old, partial) == partial

\* What a cache holds after a read that raised having collected partial: the
\* except clause (lines 50-52, 68-70) is entered before the assignment under
\* cache_lock, so the cache keeps old and the locals are dropped.
FailedRead(old, partial) == old

\* load_metrics(); a read that raises does so after any number of lines.
LoadMetrics(metrics_file, outcome) ==
    /\ rpc = "M33"
    /\ cache_lock = None
    /\ outcome = "raises" => metrics_file.exists
    /\ IF outcome = "raises"
       THEN /\ rlocal' = [kind |-> "error"]
            /\ \E n \in 0..Len(metrics_file.content) :
               \E kept \in {FailedRead(
                                [metrics |-> metrics_cache,
                                 latest |-> latest_metric_cache],
                                ParseFrom(SubSeq(metrics_file.content, 1, n),
                                          1, NothingLoaded))} :
                  /\ metrics_cache' = kept.metrics
                  /\ latest_metric_cache' = kept.latest
            /\ UNCHANGED last_refresh
       ELSE \E loaded \in {ReadMetrics(metrics_file,
                                [metrics |-> metrics_cache,
                                 latest |-> latest_metric_cache])} :
            /\ metrics_cache' = loaded.metrics
            /\ latest_metric_cache' = loaded.latest
            /\ last_refresh' = Now(rcycle)
            /\ rlocal' = Swapped("metrics", metrics_file.exists,
                                 metrics_cache # <<>>)
    /\ rpc' = "E59"
    /\ UNCHANGED <<events_cache, cache_lock, rcycle>>
    /\ RelayFrame("refresher")

\* load_events()
LoadEvents(events_file, outcome) ==
    /\ rpc = "E59"
    /\ cache_lock = None
    /\ outcome = "raises" => events_file.exists
    /\ IF outcome = "raises"
       THEN /\ rlocal' = [kind |-> "error"]
            /\ events_cache' = FailedRead(events_cache, "")
       ELSE /\ events_cache' = ReadEvents(events_file, events_cache)
            /\ rlocal' = Swapped("events", events_file.exists,
                                 events_cache # "")
    /\ rpc' = "sleep"
    /\ UNCHANGED <<metrics_cache, latest_metric_cache, last_refresh,
                   cache_lock, rcycle>>
    /\ RelayFrame("refresher")

\* MetricsHandler.do_GET for each path
Serve(path, io) ==
    /\ Serving
    /\ hpc = "idle"
    /\ cache_lock = None
    /\ hret' = CASE path = "/latest" ->
                       LatestResponse(latest_metric_cache, io)
                 [] path = "/events" -> EventsResponse(events_cache, io)
                 [] path = "/" -> InfoResponse(last_refresh, metrics_cache, io)
                 [] OTHER -> [op |-> "/other", status |-> 404]
    /\ UNCHANGED <<hpc, hlocal, cache_lock>>
    /\ RelayFrame("handler")

NextRelay ==
    \/ \E f \in MetricsFiles, outcome \in {"ok", "raises"} :
          LoadMetrics(f, outcome)
    \/ \E f \in EventsFiles, outcome \in {"ok", "raises"} :
          LoadEvents(f, outcome)
    \/ RelaySleep
    \/ \E path \in Paths, io \in WriteOutcomes : Serve(path, io)

SpecRelay == Init /\ [][NextRelay]_vars

\* ======================================================== properties
\* The last accepted sample.
LastAccepted == accepted[Len(accepted)]
\* A step in which update accepted a sample (called directly or by the poller).
AcceptStep == ret'.op \in {"update", "poll"} /\ ret'.ok
\* A direct call of update with a timestamp, made in this step.
UpdateStepWithTs == ret'.op = "update" /\ ret'.ts # None
\* v[g][f], 0 when the group or the field is absent.
CounterOf(v, g, f) == Get(Get(v, g, EmptyDict), f, 0)
\* The view holds the rate q in field f of group g.
HasRate(view, g, f, q) ==
    /\ view # <<>>
    /\ g \in DOMAIN view[1]
    /\ f \in DOMAIN view[1][g]
    /\ view[1][g][f] = q
CounterNames == {"read_sectors", "write_sectors", "rx_bytes", "tx_bytes"}

\* The observation is the stored snapshot's value, and the result of
\* get_latest_with_derived() is a function of that value, last_seen_ts,
\* last_counter_values and last_counter_ts alone.
ViewDetermined ==
    /\ stored_view = StoredView
    /\ DerivedView = PureView(stored_view, Self)

\* C1: an update whose sample has ts <= last_seen_ts, after an accepted
\* sample, returns False and leaves latest_sample, last_seen_ts,
\* last_counter_values and last_counter_ts unchanged; the result of
\* get_latest_with_derived(), which these fields determine, is then the same
\* before and after.
C1_RejectedLeavesState ==
    /\ [][(UpdateStepWithTs /\ last_seen_ts # None /\ ret'.ts <= last_seen_ts)
            => /\ ret'.ok = FALSE
               /\ UNCHANGED procvars
               /\ stored_view' = stored_view]_vars
    /\ []ViewDetermined

\* An update was just rejected for a timestamp equal to last_seen_ts, with a
\* rate window in place.
C1_Witness ==
    /\ ret.op = "update" /\ ~ret.ok
    /\ ret.ts # None /\ ret.ts = last_seen_ts
    /\ last_counter_ts # None

\* C2: whenever update returns True the new last_seen_ts is strictly greater
\* than the old one (and is the sample's timestamp), and last_seen_ts never
\* decreases or becomes None again in any step.
C2_LastSeenIncreases ==
    [][/\ AcceptStep => last_seen_ts' > last_seen_ts
       /\ (ret'.op = "update" /\ ret'.ok) => last_seen_ts' = ret'.ts
       /\ last_seen_ts' >= last_seen_ts]_vars

\* Two samples were accepted, the second at a later timestamp.
C2_Witness ==
    /\ ret.op = "update" /\ ret.ok
    /\ Len(accepted) = 2
    /\ last_counter_ts # None /\ last_counter_ts < last_seen_ts

\* C3: update with a sample that has no ts field returns False and changes
\* no field of the processor, in every reachable state.
C3_NoTimestampRejected ==
    [][(ret'.op = "update" /\ ret'.ts = None)
        => /\ ret'.ok = FALSE
           /\ UNCHANGED procvars
           /\ stored_view' = stored_view]_vars

\* A sample without ts was just rejected by a processor that holds a sample.
C3_Witness ==
    /\ ret.op = "update" /\ ret.ts = None /\ ~ret.ok
    /\ latest_sample # NullRef

\* The derived view carries the timestamp and every non-counter field of the
\* snapshot B with B's value.
Reflects(view, B) ==
    /\ view # <<>>
    /\ "ts" \in DOMAIN view[1] /\ view[1].ts = B.ts
    /\ \A g \in DOMAIN B \cap Groups :
          /\ g \in DOMAIN view[1]
          /\ \A f \in DOMAIN B[g] \ CounterNames :
                f \in DOMAIN view[1][g] /\ view[1][g][f] = B[g][f]

\* C4: after A was accepted, a sample B with B.ts > A.ts is accepted when
\* submitted, and get_latest_with_derived() then returns B's timestamp and
\* every non-counter field of B with B's value.
C4_NewerAcceptedAndReflected ==
    /\ [][(UpdateStepWithTs /\ last_seen_ts # None /\ ret'.ts > last_seen_ts)
            => /\ ret'.ok
               /\ accepted'[Len(accepted')].ts = ret'.ts
               /\ stored_view' = <<accepted'[Len(accepted')]>>]_vars
    /\ [](accepted # <<>> => Reflects(DerivedView, LastAccepted))

\* B was accepted after A and carries a gauge in the disk group.
C4_Witness ==
    /\ ret.op = "update" /\ ret.ok
    /\ Len(accepted) = 2
    /\ "disk" \in DOMAIN LastAccepted
    /\ "used_percent" \in DOMAIN LastAccepted.disk
    /\ DerivedView[1].disk.used_percent = LastAccepted.disk.used_percent

\* The rate two consecutively accepted samples s1, s2 must give for counter
\* f of group g.
ExpectedRate(s1, s2, g, f) ==
    TrueDiv(CounterOf(s2, g, f) - CounterOf(s1, g, f), s2.ts - s1.ts)

\* C5: with two consecutively accepted snapshots at t1 < t2,
\* get_latest_with_derived() returns each rate as (c2 - c1)/(t2 - t1), a
\* counter absent from either snapshot taken as 0.
C5_RatesFromConsecutive ==
    Len(accepted) = 2 =>
        /\ accepted[1].ts < accepted[2].ts
        /\ HasRate(DerivedView, "disk", "read_sectors_rate",
                   ExpectedRate(accepted[1], accepted[2],
                                "disk", "read_sectors"))
        /\ HasRate(DerivedView, "disk", "write_sectors_rate",
                   ExpectedRate(accepted[1], accepted[2],
                                "disk", "write_sectors"))
        /\ HasRate(DerivedView, "network", "rx_bytes_rate",
                   ExpectedRate(accepted[1], accepted[2],
                                "network", "rx_bytes"))
        /\ HasRate(DerivedView, "network", "tx_bytes_rate",
                   ExpectedRate(accepted[1], accepted[2],
                                "network", "tx_bytes"))

\* Two samples two seconds apart, the second without write_sectors, give a
\* read rate of 1/2 and a write rate of -1/2.
C5_Witness ==
    /\ Len(accepted) = 2
    /\ accepted[2].ts - accepted[1].ts = 2
    /\ "write_sectors" \notin DOMAIN Get(accepted[2], "disk", EmptyDict)
    /\ HasRate(DerivedView, "disk", "read_sectors_rate",
               [num |-> 1, den |-> 2])
    /\ HasRate(DerivedView, "disk", "write_sectors_rate",
               [num |-> -1, den |-> 2])

\* C6: when exactly one snapshot has ever been accepted, whatever was rejected
\* before or after it, get_latest_with_derived() returns the four rates 0.0.
C6_FirstSampleZeroRates ==
    Len(accepted) = 1 =>
        /\ HasRate(DerivedView, "disk", "read_sectors_rate", ZeroFloat)
        /\ HasRate(DerivedView, "disk", "write_sectors_rate", ZeroFloat)
        /\ HasRate(DerivedView, "network", "rx_bytes_rate", ZeroFloat)
        /\ HasRate(DerivedView, "network", "tx_bytes_rate", ZeroFloat)

\* One sample with non-zero counters was accepted and a later call rejected.
C6_Witness ==
    /\ Len(accepted) = 1
    /\ CounterOf(accepted[1], "disk", "read_sectors") > 0
    /\ ret.op \in {"update", "poll"} /\ ~ret.ok
    /\ HasRate(DerivedView, "disk", "read_sectors_rate", ZeroFloat)

\* C7: get_latest_with_derived() returns None exactly when no update was ever
\* accepted; GET /metrics answers 503 exactly then, and otherwise 200 with
\* the derived snapshot; a status other than 503 and 200 comes only from the
\* handler's own serialising or writing failing, never from ingestion.
C7_MetricsResponse ==
    /\ DerivedView = <<>> <=> accepted = <<>>
    /\ ret.op = "get_latest_with_derived" =>
          (ret.out = NullRef <=> accepted = <<>>)
    /\ ret.op = "GET /metrics" =>
          /\ ret.status = 503 <=> accepted = <<>>
          /\ (accepted # <<>> /\ ret.io_ok) =>
                (ret.status = 200 /\ ret.body = DerivedView
                    /\ ret.body # <<>> /\ ret.body[1].ts = LastAccepted.ts)
          /\ ret.status \notin {503, 200} => (~ret.io_ok /\ accepted # <<>>)

\* GET /metrics answered 200 with the snapshot accepted second.
C7_Witness ==
    /\ ret.op = "GET /metrics" /\ ret.status = 200
    /\ Len(accepted) = 2
    /\ ret.body[1].ts = accepted[2].ts

\* C8: get_health_status() returns "stale" exactly when nothing was ever
\* accepted (last_seen_ts is None then) or current time - last_seen_ts >
\* max_age_seconds, and "ok" otherwise; after an acceptance the result
\* carries the current last_seen_ts.  With max_age 30 and the last sample at
\* 1000: ok at 1025, stale at 1040.
C8_HealthStatus ==
    /\ accepted = <<>> <=> last_seen_ts = None
    /\ ret.op = "get_health_status" =>
          /\ ret.health.status = "stale" <=>
                (accepted = <<>> \/
                 ret.time - LastAccepted.ts > max_age_seconds)
          /\ ret.health.status \in {"ok", "stale"}
          /\ ret.health.last_seen_ts = last_seen_ts
          /\ accepted # <<>> => ret.health.last_seen_ts = LastAccepted.ts
    /\ get_health_status(1000, 1025, 30) =
          [status |-> "ok", last_seen_ts |-> 1000]
    /\ get_health_status(1000, 1040, 30) =
          [status |-> "stale", last_seen_ts |-> 1000]

\* The health was just reported ok at an age equal to max_age_seconds.
C8_Witness ==
    /\ ret.op = "get_health_status" /\ ret.health.status = "ok"
    /\ accepted # <<>>
    /\ ret.time - last_seen_ts = max_age_seconds

\* C9: last_counter_values and last_counter_ts hold the four counters (0 for
\* an absent one) and the timestamp of the snapshot accepted immediately
\* before the current latest_sample; after the first accepted sample, and
\* before it, they are absent (None and {}).
C9_PriorIsSnapshotBeforeLatest ==
    /\ Len(accepted) <= 1 =>
          (last_counter_ts = None /\ last_counter_values = EmptyDict)
    /\ Len(accepted) >= 1 => StoredView = <<LastAccepted>>
    /\ Len(accepted) = 2 =>
          /\ last_counter_ts = accepted[1].ts
          /\ DOMAIN last_counter_values =
                {"disk.read_sectors", "disk.write_sectors",
                 "network.rx_bytes", "network.tx_bytes"}
          /\ last_counter_values["disk.read_sectors"] =
                CounterOf(accepted[1], "disk", "read_sectors")
          /\ last_counter_values["disk.write_sectors"] =
                CounterOf(accepted[1], "disk", "write_sectors")
          /\ last_counter_values["network.rx_bytes"] =
                CounterOf(accepted[1], "network", "rx_bytes")
          /\ last_counter_values["network.tx_bytes"] =
                CounterOf(accepted[1], "network", "tx_bytes")

\* Three samples were accepted; the prior values are those of the second,
\* whose rx and tx counters differ.
C9_Witness ==
    /\ Len(accepted) = 2
    /\ accepted[1].ts = 2 /\ last_seen_ts = 3 /\ last_counter_ts = 2
    /\ last_counter_values["network.rx_bytes"] #
          last_counter_values["network.tx_bytes"]

\* C10: the processor shares no mutable structure with its callers: when the
\* caller of an accepted update changes its sample object, or a reader
\* changes an object get_latest_with_derived() returned, latest_sample's
\* value stays the accepted sample's and the processor's fields stay as they
\* were, and so does the result of every later get_latest_with_derived(),
\* which they determine.
C10_NoSharedStructure ==
    /\ [][ret'.op \in {"caller_mutate", "reader_mutate"}
            => /\ stored_view' = stored_view
               /\ stored_view' = <<LastAccepted>>
               /\ UNCHANGED procvars]_vars
    /\ []ViewDetermined

\* The caller changed its accepted sample: its object now differs from the
\* stored snapshot, which still holds the accepted value.
C10_Witness ==
    /\ ret.op = "caller_mutate"
    /\ Value(heap, ret.sample) # LastAccepted
    /\ StoredView = <<LastAccepted>>

RateNames ==
    {"read_sectors_rate", "write_sectors_rate", "rx_bytes_rate",
     "tx_bytes_rate"}
\* The stored snapshot sv (<<>> for None) holds no derived rate field.
NoRates(sv) ==
    sv # <<>> =>
        \A g \in DOMAIN sv[1] \cap Groups : DOMAIN sv[1][g] \cap RateNames = {}
\* A step that is a call of one of the two reading methods, directly or
\* through its HTTP handler.
ReadStep ==
    ret'.op \in {"get_latest_with_derived", "get_health_status",
                 "GET /metrics", "GET /health"}

\* C11: get_latest_with_derived() and get_health_status() change no field of
\* the processor and do not change the stored snapshot, which never holds a
\* derived rate field; a call of get_latest_with_derived() returns the value
\* the previous call returned when no update was accepted in between.
C11_ReadsLeaveState ==
    [][ReadStep =>
        /\ UNCHANGED <<procvars, max_age_seconds>>
        /\ stored_view' = stored_view
        /\ NoRates(stored_view')
        /\ (last_view.called /\ last_view'.called) =>
                last_view'.view = last_view.view]_vars

\* get_latest_with_derived() was called again, with no accepted update since
\* the call before, and returned a snapshot with computed rates.
C11_Witness ==
    /\ ret.op = "get_latest_with_derived" /\ ret.again
    /\ Len(accepted) = 2
    /\ last_view.view # <<>>
    /\ HasRate(last_view.view, "disk", "read_sectors_rate",
               ExpectedRate(accepted[1], accepted[2], "disk", "read_sectors"))
    /\ NoRates(stored_view) /\ stored_view # <<>>

\* The view (<<>> for None) is what get_latest_with_derived() owes after the
\* acceptances in hist, and no others: the last accepted snapshot with its
\* timestamp and fields, the rates taken between the last two of them, or
\* 0.0 after a single one.
ViewOfHistory(view, hist) ==
    IF hist = <<>> THEN view = <<>>
    ELSE /\ Reflects(view, hist[Len(hist)])
         /\ \A c \in {<<"disk", "read_sectors">>, <<"disk", "write_sectors">>,
                      <<"network", "rx_bytes">>, <<"network", "tx_bytes">>} :
               HasRate(view, c[1], c[2] \o "_rate",
                       IF Len(hist) = 1 THEN ZeroFloat
                       ELSE ExpectedRate(hist[1], hist[2], c[1], c[2]))

\* C12: under every interleaving of updating threads with a reader, each
\* result the reader gets belongs to a state entirely before or entirely
\* after each accepted update: get_latest_with_derived() returns the last
\* completely accepted snapshot, its timestamp, and rates taken from the
\* snapshot accepted just before it, and get_health_status() carries that
\* snapshot's timestamp.
C12_ReaderSeesWholeUpdates ==
    [][/\ (tpc[Reader] = "G75" /\ tpc'[Reader] = "idle") =>
            ViewOfHistory(tlocal'[Reader].result[1].view, accepted)
       /\ (tpc[Reader] = "H135" /\ tpc'[Reader] = "idle") =>
            tlocal'[Reader].result[1].health.last_seen_ts =
                IF accepted = <<>> THEN None ELSE LastAccepted.ts]_vars

\* The reader waits for the lock while an updater, inside update, has
\* replaced the snapshot and the prior counters but not yet last_seen_ts.
C12_Witness ==
    /\ tpc[Reader] = "G74"
    /\ lock \in Updaters /\ tpc[lock] = "L64"
    /\ last_counter_ts # None
    /\ StoredView[1].ts # last_seen_ts

\* Every updating thread has returned from its call.
AllDone == \A t \in Updaters : tpc[t] = "done"
\* The orders in which the threads' calls can be made one after the other.
Orders ==
    {o \in [1..MaxThreads -> Updaters] :
        \A i, j \in 1..MaxThreads : i # j => o[i] # o[j]}
\* The processor and the results after the calls of order o from position i
\* on, made one after the other from st.
RECURSIVE RunSeq(_, _, _)
RunSeq(o, i, st) ==
    IF i > MaxThreads THEN st
    ELSE LET r == update(Alloc(st.heap, "caller", tlocal[o[i]].sample[1]),
                         st.self, TopAddr("caller"))
         IN  RunSeq(o, i + 1,
                    [heap |-> r.heap, self |-> r.self,
                     results |-> [st.results EXCEPT ![o[i]] = r.ok]])
\* The calls made one after the other in order o on a new processor.
Sequential(o) ==
    RunSeq(o, 1,
           [heap |-> [a \in Addr |-> EmptyDict],
            self |-> [latest_sample |-> NullRef, last_seen_ts |-> None,
                      last_counter_values |-> EmptyDict,
                      last_counter_ts |-> None],
            results |-> [t \in Updaters |-> FALSE]])
\* The largest of the timestamps submitted, None when there is none.
MaxSubmitted ==
    CHOOSE m \in {tlocal[t].ts : t \in Updaters} :
        \A t \in Updaters : tlocal[t].ts <= m

\* C13: concurrent update calls serialize under the lock: once all have
\* returned, the processor's state and every call's result are those of the
\* same calls made one after the other in some order, last_seen_ts is the
\* largest timestamp submitted, and the accepted samples' timestamps rise
\* strictly in the order of acceptance.
C13_UpdatesSerialize ==
    /\ Len(accepted) = 2 => accepted[1].ts < accepted[2].ts
    /\ AllDone =>
          /\ last_seen_ts = MaxSubmitted
          /\ \E o \in Orders :
                \E st \in {Sequential(o)} :
                    /\ StoredOf(st.heap, st.self) = StoredView
                    /\ st.self.last_seen_ts = last_seen_ts
                    /\ st.self.last_counter_values = last_counter_values
                    /\ st.self.last_counter_ts = last_counter_ts
                    /\ \A t \in Updaters :
                          tlocal[t].result = <<st.results[t]>>

\* Two threads submitted timestamps 1 and 2 concurrently; the newer one got
\* the lock first and the older one was rejected.
C13_Witness ==
    /\ AllDone
    /\ tlocal[1].ts = 1 /\ tlocal[1].result = <<FALSE>>
    /\ tlocal[2].ts = 2 /\ tlocal[2].result = <<TRUE>>
    /\ last_seen_ts = 2

\* The array element e is an object.
IsObject(e) == e.type = "dict"
\* The polling loop has processed what it fetched last.
Processed == ret.op = "poll" /\ poll_pc # "process"

\* C14: when the upstream response is a non-empty array of snapshots (or holds
\* a snapshot with a timestamp), one polling cycle hands exactly one element
\* to processor.update: an element of the array whose timestamp is the
\* largest in the array, wherever it stands (the first of them when several
\* share it); a single object is handed to update itself.
C14_PollerForwardsNewest ==
    Processed =>
        /\ (/\ metrics_data.type = "list"
            /\ Len(metrics_data.items) > 0
            /\ \/ \A i \in DOMAIN metrics_data.items :
                      IsObject(metrics_data.items[i])
               \/ \E i \in DOMAIN metrics_data.items :
                      SortKey(metrics_data.items[i]) > 0)
           => /\ Len(ret.forwarded) = 1
              /\ \E i \in DOMAIN metrics_data.items :
                    /\ metrics_data.items[i] = JsonDict(ret.forwarded[1])
                    /\ \A j \in DOMAIN metrics_data.items :
                          /\ SortKey(metrics_data.items[j]) <=
                                SortKey(metrics_data.items[i])
                          /\ j < i => SortKey(metrics_data.items[j]) <
                                         SortKey(metrics_data.items[i])
        /\ metrics_data.type = "dict" =>
              ret.forwarded = <<metrics_data.value>>

\* The poller was given an array whose newest element stands first, before an
\* older one, and update accepted the newest.
C14_Witness ==
    /\ Processed /\ ret.ok
    /\ metrics_data.type = "list" /\ Len(metrics_data.items) >= 2
    /\ SortKey(metrics_data.items[1]) = MaxTs
    /\ SortKey(metrics_data.items[Len(metrics_data.items)]) = 1
    /\ ret.forwarded[1].ts = MaxTs
    /\ last_seen_ts = MaxTs

\* C15: the polling loop never ends and lets no exception escape, whatever a
\* cycle's outcome: after the processing of every cycle (fetch failed, sample
\* rejected or accepted, processing raised) it goes to the sleep, a new cycle
\* starts only after a sleep of the full poll interval, and cycles keep
\* coming.
C15_LoopNeverEnds ==
    /\ [](poll_pc \in {"fetch", "process", "sleep"})
    /\ [][(poll_pc = "process" /\ poll_pc' # "process")
            => poll_pc' = "sleep"]_vars
    /\ [][(poll_pc # "fetch" /\ poll_pc' = "fetch")
            => (poll_pc = "sleep" /\ slept' = PollInterval)]_vars
    /\ []<>(poll_pc = "fetch")
    /\ []<>(poll_pc = "sleep")

\* A cycle whose processing raised has slept the full interval and the next
\* fetch is due, with a snapshot accepted in an earlier cycle.
C15_Witness ==
    /\ poll_pc = "fetch" /\ slept = PollInterval
    /\ ProcessingRaises(metrics_data)
    /\ ret.op = "poll" /\ ~ret.ok
    /\ accepted # <<>>

\* A cycle whose fetch failed, or returned an empty array, or something that
\* is neither an array nor an object.
NothingUsable(data) ==
    \/ data.type \in {"none", "other"}
    \/ data.type = "list" /\ Len(data.items) = 0

\* C16: a polling cycle whose fetch fails, or returns an empty array or a
\* value that is neither an array nor an object, does not call
\* processor.update and leaves the processor's state as it was.
C16_NothingUsableNoUpdate ==
    [][(poll_pc = "process" /\ poll_pc' # "process"
            /\ NothingUsable(metrics_data)) =>
        /\ ret'.op = "poll" /\ ret'.forwarded = <<>>
        /\ ~ret'.ok
        /\ UNCHANGED <<procvars, max_age_seconds, accepted>>
        /\ stored_view' = stored_view]_vars

\* A cycle got an empty array while the processor held two accepted
\* snapshots, and left them there.
C16_Witness ==
    /\ Processed /\ poll_pc = "sleep"
    /\ metrics_data.type = "list" /\ Len(metrics_data.items) = 0
    /\ ret.forwarded = <<>>
    /\ stored_view # <<>> /\ last_counter_ts # None


\* ------------------------------------------------------ C17 (file relay)
\* The refresh thread is between the two swaps of one cycle: the metrics
\* caches are this cycle's, the events cache is not yet.
BetweenSwaps == Serving /\ rpc = "E59" /\ rlocal.kind = "metrics"

\* C17: the metrics caches and the events cache are swapped under one
\* acquisition of cache_lock per refresh cycle, so that a handler never reads
\* the caches while the metrics caches are one cycle's and the events cache
\* another's, and the response of GET / never pairs the last_refresh of one
\* cycle with the metrics count of another.
C17_CachesSwappedTogether ==
    /\ [](cache_lock = Handler => ~BetweenSwaps)
    /\ [][\A io \in WriteOutcomes :
             I146(io) => hlocal.refresh_time = last_refresh]_vars

\* ------------------------------------------------------ C18 (file relay)
\* The lines of a file that parse as JSON.
ParsingLines(lines) ==
    {i \in 1..Len(lines) : lines[i] \in {"object", "scalar"}}
\* The value of the last line of a file that parses as JSON, {} if none does.
LastParsed(f) ==
    IF ~f.exists \/ ParsingLines(f.content) = {} THEN EmptyObject
    ELSE LET last == CHOOSE i \in ParsingLines(f.content) :
                         \A j \in ParsingLines(f.content) : j <= i
         IN  json_loads(f.content[last], last)

\* C18: a load_metrics that completes leaves in latest_metric_cache the last
\* line of the file that parses as JSON, or {} if none does, and GET /latest
\* answers 200 with exactly the cached value.
C18_LatestIsLastParsedLine ==
    [][/\ \A f \in MetricsFiles :
             LoadMetrics(f, "ok") => latest_metric_cache' = LastParsed(f)
       /\ Serve("/latest", "ok") =>
             /\ hret'.status = 200
             /\ hret'.json = latest_metric_cache]_vars

\* ------------------------------------------------------ C19 (file relay)
\* C19: a load that finds its file missing does not fail and leaves its
\* cache empty: metrics_cache = [], latest_metric_cache = {} and
\* events_cache = '', whatever the caches held before.
C19_MissingFileIsEmpty ==
    [][/\ ~LoadMetrics(Missing, "raises")
       /\ ~LoadEvents(Missing, "raises")
       /\ LoadMetrics(Missing, "ok") =>
             /\ metrics_cache' = <<>>
             /\ latest_metric_cache' = EmptyObject
             /\ rlocal'.kind # "error"
       /\ LoadEvents(Missing, "ok") =>
             /\ events_cache' = ""
             /\ rlocal'.kind # "error"]_vars

\* A load found the metrics file missing and emptied caches that held
\* content.
C19_Witness ==
    /\ rlocal = Swapped("metrics", FALSE, TRUE)
    /\ metrics_cache = <<>>
    /\ latest_metric_cache = EmptyObject

\* ------------------------------------------------------------------- C20
\* The steps that perform I/O: the warnings of update, the file reads and
\* error prints of the loads, the responses of the handlers.
ProcessorIO == {"L43", "L49"}
RefresherIO == {"M33", "M52", "E59", "E70"}
HandlerIO == {"N91", "L99", "V123", "I146"}

\* C20: a thread that is at an I/O step does not hold the processor's lock
\* nor cache_lock.
C20_NoLockAcrossIO ==
    /\ \A t \in Threads : tpc[t] \in ProcessorIO => lock # t
    /\ rpc \in RefresherIO => cache_lock # Refresher
    /\ hpc \in HandlerIO => cache_lock # Handler

\* ------------------------------------------------------------------- C21
\* The counters: group and field; the rate of field f is field f_rate.
CounterFields ==
    {<<"disk", "read_sectors">>, <<"disk", "write_sectors">>,
     <<"network", "rx_bytes">>, <<"network", "tx_bytes">>}
RateField(f) == f \o "_rate"

\* Counter c is lower in the latest accepted snapshot than in the one before.
WentDown(c) ==
    /\ Len(accepted) = 2
    /\ CounterOf(accepted[2], c[1], c[2]) < CounterOf(accepted[1], c[1], c[2])

\* C21: when a counter of the latest accepted snapshot is lower than in the
\* previous accepted snapshot, get_latest_with_derived() returns for it the
\* negative rate (current - prior)/(t2 - t1): not 0.0, not its absolute
\* value.
C21_NegativeRatesKept ==
    \A c \in CounterFields :
        WentDown(c) =>
            LET q == ExpectedRate(accepted[1], accepted[2], c[1], c[2])
            IN  /\ q.num < 0 /\ q.den > 0
                /\ HasRate(DerivedView, c[1], RateField(c[2]), q)
                /\ ~HasRate(DerivedView, c[1], RateField(c[2]), ZeroFloat)
                /\ ~HasRate(DerivedView, c[1], RateField(c[2]),
                            [num |-> -q.num, den |-> q.den])

\* read_sectors went from 1 to 0 in one second and its rate is -1.
C21_Witness ==
    /\ WentDown(<<"disk", "read_sectors">>)
    /\ "read_sectors" \in DOMAIN Get(accepted[2], "disk", EmptyDict)
    /\ accepted[2].ts - accepted[1].ts = 1
    /\ HasRate(DerivedView, "disk", "read_sectors_rate",
               [num |-> -1, den |-> 1])

\* ------------------------------------------------------------------- C22
\* What get_health_status() would report in this state at clock reading t.
HealthAt(t) == get_health_status(last_seen_ts, t, max_age_seconds).status

\* C22: with no accepted update in between and a clock that does not go
\* back, get_health_status() never goes from "stale" to "ok": two successive
\* calls never do, in no state does a later clock reading give "ok" where an
\* earlier one gives "stale", and a step that is not an accepted update, a
\* rejected update among them, leaves the result for every clock reading as
\* it was.
C22_StaleStaysStale ==
    /\ [][(/\ ret.op = "get_health_status"
           /\ ret'.op = "get_health_status"
           /\ ret'.time >= ret.time
           /\ ret.health.status = "stale") =>
              ret'.health.status = "stale"]_vars
    /\ [](\A t1, t2 \in 0..MaxClock :
             (t1 <= t2 /\ HealthAt(t1) = "stale") => HealthAt(t2) = "stale")
    /\ [][~AcceptStep =>
             \A t \in 0..MaxClock :
                 get_health_status(last_seen_ts', t, max_age_seconds') =
                     get_health_status(last_seen_ts, t, max_age_seconds)]_vars

\* The health was just reported stale for a snapshot that an earlier clock
\* reading finds ok.
C22_Witness ==
    /\ ret.op = "get_health_status"
    /\ ret.health.status = "stale"
    /\ accepted # <<>>
    /\ \E t \in 0..MaxClock : t < ret.time /\ HealthAt(t) = "ok"

\* ------------------------------------------------------------------- C23
\* get_latest_with_derived() would take the branch of lines 106-115: prior
\* values are there and the time delta is not positive.
InvalidDeltaBranch ==
    /\ latest_sample # NullRef
    /\ last_counter_ts # None /\ last_seen_ts # None
    /\ ~(last_seen_ts - last_counter_ts > 0)

\* C23: whenever last_counter_ts is not None it is strictly less than
\* last_seen_ts, so the time delta of the rates is positive and the branch
\* for a time delta <= 0 is never taken.
C23_CounterTsBelowSeenTs ==
    /\ last_counter_ts # None =>
          /\ last_seen_ts # None
          /\ last_counter_ts < last_seen_ts
    /\ ~InvalidDeltaBranch

\* get_latest_with_derived() was just called with prior values one second
\* older than the latest snapshot.
C23_Witness ==
    /\ ret.op = "get_latest_with_derived"
    /\ last_counter_ts # None
    /\ last_seen_ts - last_counter_ts = 1

\* ------------------------------------------------------------------- C24
\* C24: once an update has been accepted, latest_sample and last_seen_ts are
\* never absent again: no step takes either back to None, both are there
\* whenever something was accepted or GET /metrics has answered 200, and a
\* GET /metrics of a processor that holds a snapshot never answers 503.
C24_SnapshotNeverAbsentAgain ==
    /\ [][/\ latest_sample # NullRef => latest_sample' # NullRef
          /\ last_seen_ts # None => last_seen_ts' # None
          /\ (ret'.op = "GET /metrics" /\ latest_sample # NullRef) =>
                ret'.status # 503]_vars
    /\ [](accepted # <<>> =>
             (latest_sample # NullRef /\ last_seen_ts # None))
    /\ []((ret.op = "GET /metrics" /\ ret.status = 200) =>
             (latest_sample # NullRef /\ last_seen_ts # None))

\* A polling cycle failed after GET /metrics had served the snapshot, and
\* the snapshot is still there.
C24_Witness ==
    /\ ret.op = "poll" /\ ~ret.ok
    /\ last_view.called /\ last_view.view # <<>>
    /\ latest_sample # NullRef /\ last_seen_ts # None

\* ------------------------------------------------------------------- C25
\* The timestamp an array element is ranked by: its ts, and 0 for an element
\* without ts field and for one that is no object.
Rank(e) ==
    IF IsObject(e) /\ "ts" \in DOMAIN e.value THEN e.value.ts ELSE 0

\* The first position of the array that holds the largest rank.
FirstOfLargest(items) ==
    CHOOSE i \in DOMAIN items :
        /\ \A j \in DOMAIN items : Rank(items[j]) <= Rank(items[i])
        /\ \A j \in DOMAIN items : Rank(items[j]) = Rank(items[i]) => i <= j

CallEnded(t) == tpc[t] \in {"idle", "done", "raised"}

\* C26: update, get_latest_with_derived and get_health_status release the
\* processor lock on every path, a raised exception included: a thread that
\* is in no call never holds the lock, and under a fair scheduler every call
\* of every thread ends, so that no thread holds the lock forever.
C26_LockAlwaysReleased ==
    /\ [](\A t \in Threads : CallEnded(t) => lock # t)
    /\ \A t \in Threads : (~CallEnded(t)) ~> CallEnded(t)

\* An update ended with the TypeError of line 48 while another thread's
\* update was accepted, and the lock is free.
C26_Witness ==
    /\ lock = None
    /\ \E t, u \in Updaters :
          /\ tpc[t] = "raised"
          /\ tpc[u] = "done" /\ tlocal[u].result = <<TRUE>>

\* ------------------------------------------------------------------- C27
\* The three metrics caches and the events cache.
MetricsCaches == <<metrics_cache, latest_metric_cache, last_refresh>>

\* A step of the refresh thread that is a load whose read raised.
FailedLoad ==
    /\ rpc \in {"M33", "E59"}
    /\ rpc' # rpc
    /\ rlocal' = [kind |-> "error"]

\* C27: a load_metrics() whose read of the metrics file raises, after any
\* number of lines, leaves metrics_cache, latest_metric_cache and
\* last_refresh as they were, and a load_events() whose read raises leaves
\* events_cache as it was; neither touches the other load's caches.
C27_FailedLoadKeepsCaches ==
    [][FailedLoad => UNCHANGED <<MetricsCaches, events_cache>>]_vars

\* A refresh failed on the metrics file while the caches held the lines of
\* an earlier load, and they still do.
C27_Witness ==
    /\ rpc = "E59"
    /\ rlocal = [kind |-> "error"]
    /\ rcycle >= 1
    /\ metrics_cache # <<>>
    /\ latest_metric_cache # EmptyObject

====
